---- MODULE Spec2Model ----
(***************************************************************************)
(* Data Sweeper (src/app.py): a Streamlit script that is re-executed from  *)
(* top to bottom on every user interaction.  One action of the session     *)
(* specification is one interaction followed by the complete script run    *)
(* it triggers.  The table operations the script delegates to pandas are   *)
(* modelled by what they compute on small tables.                          *)
(*                                                                         *)
(* Numbers are exact rationals n/d in lowest terms (float rounding is not  *)
(* modelled); a missing value (NaN/None) is the cell NA.                   *)
(***************************************************************************)
EXTENDS Integers, Sequences, FiniteSets, TLC

\* ------------------------------------------------------------------ bounds
\* Largest number of data rows of an uploaded file in the session model.
MaxRows == 2
\* Largest number of data rows of a table in the table-operation model.
MaxOpRows == 3

\* ------------------------------------------------------------------ cells
NA == [k |-> "na", n |-> 0, d |-> 1, s |-> ""]
Num(n, d) == [k |-> "num", n |-> n, d |-> d, s |-> ""]
Str(s) == [k |-> "str", n |-> 0, d |-> 1, s |-> s]

RECURSIVE GCD(_, _)
GCD(a, b) == IF b = 0 THEN a ELSE GCD(b, a % b)

\* n/d in lowest terms (n >= 0, d > 0).
Norm(n, d) == LET g == GCD(n, d) IN IF g = 0 THEN Num(0, 1) ELSE Num(n \div g, d \div g)

RAdd(a, b) == Norm(a.n * b.d + b.n * a.d, a.d * b.d)

\* Indices of a sequence, and the subsequence at a set of indices, in order.
RECURSIVE SeqAt(_, _, _)
SeqAt(seq, keep, i) ==
    IF i > Len(seq) THEN <<>>
    ELSE (IF i \in keep THEN <<seq[i]>> ELSE <<>>) \o SeqAt(seq, keep, i + 1)

IndexOf(seq, x) == CHOOSE i \in 1..Len(seq) : seq[i] = x

Range(seq) == {seq[i] : i \in 1..Len(seq)}

\* ------------------------------------------------------------ file names
\* A file name is a sequence of characters.
LowerOf(c) ==
    CASE c = "C" -> "c" [] c = "S" -> "s" [] c = "V" -> "v" [] c = "X" -> "x"
      [] c = "L" -> "l" [] c = "T" -> "t" [] c = "E" -> "e" [] OTHER -> c

\* str.lower()
Lower(str) == [i \in 1..Len(str) |-> LowerOf(str[i])]

\* os.path.splitext(name)[-1]: from the last dot on, unless the name has no
\* dot or only leading dots before it.
SplitExt(name) ==
    LET dots == {i \in 1..Len(name) : name[i] = "."}
    IN  IF dots = {} THEN <<>>
        ELSE LET last == CHOOSE i \in dots : \A j \in dots : j <= i
             IN  IF \A j \in 1..(last - 1) : name[j] = "." THEN <<>>
                 ELSE SubSeq(name, last, Len(name))

ExtCsv == <<".", "c", "s", "v">>
ExtXlsx == <<".", "x", "l", "s", "x">>

\* ------------------------------------------------------------ raw files
\* The content of an upload: a header and lines of text tokens; "" is an
\* empty field.
NumTokens == {"1", "2", "3"}
TokVal(t) == CASE t = "1" -> 1 [] t = "2" -> 2 [] t = "3" -> 3 [] OTHER -> 0

\* ------------------------------------------------------------ the table
\* A DataFrame: ordered column names, one dtype per column ("number" or
\* "object"), and rows of cells aligned with the columns.
DataFrame(columns, dtypes, data) == [columns |-> columns, dtypes |-> dtypes, data |-> data]

\* pd.read_csv / pd.read_excel: a column whose fields are all numeric or
\* empty is a number column (empty fields become NaN); any other column is
\* an object column holding the text; a file without data rows has object
\* columns.
ColIsNumeric(lines, j) ==
    /\ Len(lines) > 0
    /\ \A i \in 1..Len(lines) : lines[i][j] \in NumTokens \cup {""}

ParseCell(t, numeric) ==
    IF t = "" THEN NA
    ELSE IF numeric THEN Num(TokVal(t), 1) ELSE Str(t)

read_table(content) ==
    LET nc == Len(content.header)
        isnum == [j \in 1..nc |-> ColIsNumeric(content.lines, j)]
    IN  DataFrame(content.header,
                  [j \in 1..nc |-> IF isnum[j] THEN "number" ELSE "object"],
                  [i \in 1..Len(content.lines) |->
                      [j \in 1..nc |-> ParseCell(content.lines[i][j], isnum[j])]])

\* getitem_columns with a fault: the selected columns in the file's order.
getitem_columns_file_order(df, sel) ==
    LET keep == {j \in 1..Len(df.columns) : df.columns[j] \in Range(sel)}
    IN  DataFrame(SeqAt(df.columns, keep, 1),
                  SeqAt(df.dtypes, keep, 1),
                  [i \in 1..Len(df.data) |-> SeqAt(df.data[i], keep, 1)])

\* df[selected_columns]: the selected columns in the order selected.
getitem_columns(df, sel) ==
    LET src == [j \in 1..Len(sel) |-> IndexOf(df.columns, sel[j])]
    IN  DataFrame(sel,
                  [j \in 1..Len(sel) |-> df.dtypes[src[j]]],
                  [i \in 1..Len(df.data) |-> [j \in 1..Len(sel) |-> df.data[i][src[j]]]])

\* DataFrame.empty: some axis has length 0.
IsEmpty(df) == Len(df.columns) = 0 \/ Len(df.data) = 0

\* drop_duplicates with a fault: keeps the last occurrence of each row.
drop_duplicates_keep_last(df) ==
    IF IsEmpty(df) THEN df
    ELSE LET keep == {i \in 1..Len(df.data) :
                         \A j \in (i + 1)..Len(df.data) : df.data[j] # df.data[i]}
         IN  DataFrame(df.columns, df.dtypes, SeqAt(df.data, keep, 1))

\* df.drop_duplicates(inplace=True): pandas returns early on an empty frame
\* (no columns or no rows) and leaves it as it is; otherwise the rows equal
\* to an earlier row are dropped (NaN equals NaN), first occurrences kept.
drop_duplicates(df) ==
    IF IsEmpty(df) THEN df
    ELSE LET keep == {i \in 1..Len(df.data) :
                         \A j \in 1..(i - 1) : df.data[j] # df.data[i]}
         IN  DataFrame(df.columns, df.dtypes, SeqAt(df.data, keep, 1))

\* df.select_dtypes(include=["number"]).columns, as column positions.
numeric_cols(df) == {j \in 1..Len(df.columns) : df.dtypes[j] = "number"}

RECURSIVE SumCells(_, _, _)
SumCells(data, j, i) ==
    IF i > Len(data) THEN Num(0, 1)
    ELSE IF data[i][j] = NA THEN SumCells(data, j, i + 1)
    ELSE RAdd(data[i][j], SumCells(data, j, i + 1))

\* mean with a fault: divides the sum by the number of rows, NaN included.
mean_over_all_rows(df, j) ==
    LET present == {i \in 1..Len(df.data) : df.data[i][j] # NA}
        total == SumCells(df.data, j, 1)
    IN  IF present = {} THEN NA
        ELSE Norm(total.n, total.d * Len(df.data))

\* df[numeric_cols].mean() for one column: NaN is skipped; the mean of an
\* all-NaN (or empty) column is NaN.
mean(df, j) ==
    LET present == {i \in 1..Len(df.data) : df.data[i][j] # NA}
        total == SumCells(df.data, j, 1)
    IN  IF present = {} THEN NA
        ELSE Norm(total.n, total.d * Cardinality(present))

\* df[numeric_cols] = df[numeric_cols].fillna(df[numeric_cols].mean())
fillna_mean(df) ==
    LET nums == numeric_cols(df)
    IN  DataFrame(df.columns, df.dtypes,
                  [i \in 1..Len(df.data) |->
                      [j \in 1..Len(df.columns) |->
                          IF j \in nums /\ df.data[i][j] = NA
                          THEN mean(df, j) ELSE df.data[i][j]]])

\* ------------------------------------------------------------ export
\* Text of a number: n, or n/d when it is not whole.
NumText(c) == IF c.d = 1 THEN ToString(c.n) ELSE ToString(c.n) \o "/" \o ToString(c.d)

\* One written field: NaN is written as an empty field.
Field(c) == IF c = NA THEN "" ELSE IF c.k = "str" THEN c.s ELSE NumText(c)

\* df.to_csv(buffer, index=False) / df.to_excel(buffer, index=False): the
\* header row, then one line of fields per row, no index column.
Serialize(df, format) ==
    [format |-> format,
     header |-> df.columns,
     lines |-> [i \in 1..Len(df.data) |->
                   [j \in 1..Len(df.columns) |-> Field(df.data[i][j])]]]

FormatCSV == <<"C", "S", "V">>
FormatExcel == <<"E", "x", "c", "e", "l">>
Formats == {FormatCSV, FormatExcel}

MimeCsv == "text/csv"
MimeXlsx == "application/vnd.openxmlformats-officedocument.spreadsheetml.sheet"

ProcessedDataDot ==
    <<"p", "r", "o", "c", "e", "s", "s", "e", "d", "_", "d", "a", "t", "a", ".">>

\* file_name=f"processed_data.{conversion_type.lower()}"
download_file_name(conversion_type) == ProcessedDataDot \o Lower(conversion_type)

\* mime_type as set in the two branches of the export section.
mime_type(conversion_type) == IF conversion_type = FormatCSV THEN MimeCsv ELSE MimeXlsx

\* ------------------------------------------------------------ the script
\* What a file upload holds: its name and its content.  NoFile is the empty
\* uploader (uploaded_file is None).
NoFile == [name |-> <<>>, header |-> <<>>, lines |-> <<>>]

NoTable == DataFrame(<<>>, <<>>, <<>>)

NoDownload == [offered |-> FALSE, file_name |-> <<>>, mime |-> "",
               data |-> Serialize(NoTable, <<>>)]

\* The values widgets have when they are first drawn.  A widget the previous
\* run did not draw has lost its value and is drawn with its default; the
\* multiselect's default is every column of the parsed file (line 72).
DefaultWidgets ==
    [selected_columns |-> <<>>, cleaning |-> FALSE, summary |-> FALSE,
     heatmap |-> FALSE, histograms |-> FALSE, conversion_type |-> FormatCSV]

\* supported with a fault: every extension is read as a table.
supported_any(file_extension) == TRUE

\* The dispatch on file_extension: a branch that reads the file exists.
supported(file_extension) == file_extension \in {ExtCsv, ExtXlsx}

\* button with a fault: any button click makes every button report a click.
button_any(name, clicked) == clicked # "none"

\* st.button(...): True only in the run its own click triggers.
button(name, clicked) == clicked = name

\* df.describe() raises ValueError on a frame without columns.
describe_raises(df) == Len(df.columns) = 0

\* numeric_data.empty for numeric_data = df.select_dtypes(include=["number"])
numeric_data_empty(df) == numeric_cols(df) = {} \/ Len(df.data) = 0

\* One complete run of the script.  file: the uploader's value; w: the
\* widget values; drawn: the widgets the previous run drew; clicked: the
\* button whose click triggered this run ("none" for any other
\* interaction).  Yields the widget values kept for the next run and
\* everything the run produced.
Script(file, w, drawn, clicked) ==
    IF file = NoFile THEN
        [widgets |-> DefaultWidgets,
         out |-> [status |-> "no_file", has_df |-> FALSE, df_in |-> NoTable,
                  df |-> NoTable, executed |-> {}, shown |-> {"info_upload"},
                  download |-> NoDownload, rendered |-> {"uploader"}]]
    ELSE IF ~supported(Lower(SplitExt(file.name))) THEN
        [widgets |-> DefaultWidgets,
         out |-> [status |-> "stopped", has_df |-> FALSE, df_in |-> NoTable,
                  df |-> NoTable, executed |-> {}, shown |-> {"error_unsupported"},
                  download |-> NoDownload, rendered |-> {"uploader"}]]
    ELSE
        LET parsed == read_table(file)
            selected_columns ==
                IF "multiselect" \in drawn THEN w.selected_columns ELSE parsed.columns
            df1 == getitem_columns(parsed, selected_columns)
            cleaning == IF "cleaning_cb" \in drawn THEN w.cleaning ELSE FALSE
            do_dedup == cleaning /\ button("dedup", clicked)
            df2 == IF do_dedup THEN drop_duplicates(df1) ELSE df1
            do_fill == cleaning /\ button("fill", clicked)
            df3 == IF do_fill THEN fillna_mean(df2) ELSE df2
            summary == IF "summary_cb" \in drawn THEN w.summary ELSE FALSE
            raised == summary /\ describe_raises(df3)
            heatmap == IF "heatmap_cb" \in drawn THEN w.heatmap ELSE FALSE
            histograms == IF "histograms_cb" \in drawn THEN w.histograms ELSE FALSE
            conversion_type ==
                IF "format_radio" \in drawn THEN w.conversion_type ELSE FormatCSV
            do_convert == button("convert", clicked)
            cleaned == (IF do_dedup THEN {"dedup"} ELSE {})
                           \cup (IF do_fill THEN {"fill"} ELSE {})
            shown_clean == (IF do_dedup THEN {"dedup_success"} ELSE {})
                               \cup (IF do_fill THEN {"fill_success"} ELSE {})
            drawn_clean == {"uploader", "multiselect", "cleaning_cb", "summary_cb"}
                               \cup (IF cleaning THEN {"dedup_btn", "fill_btn"} ELSE {})
        IN  IF raised THEN
                [widgets |-> [selected_columns |-> selected_columns,
                              cleaning |-> cleaning, summary |-> summary,
                              heatmap |-> FALSE, histograms |-> FALSE,
                              conversion_type |-> FormatCSV],
                 out |-> [status |-> "exception", has_df |-> TRUE, df_in |-> df1,
                          df |-> df3, executed |-> cleaned,
                          shown |-> shown_clean \cup {"dataset_info"},
                          download |-> NoDownload, rendered |-> drawn_clean]]
            ELSE
                [widgets |-> [selected_columns |-> selected_columns,
                              cleaning |-> cleaning, summary |-> summary,
                              heatmap |-> heatmap, histograms |-> histograms,
                              conversion_type |-> conversion_type],
                 out |-> [status |-> "completed", has_df |-> TRUE, df_in |-> df1,
                          df |-> df3,
                          executed |-> cleaned
                              \cup (IF do_convert THEN {"convert"} ELSE {}),
                          shown |-> shown_clean
                              \cup (IF summary THEN {"dataset_info", "summary_statistics"}
                                    ELSE {})
                              \cup (IF ~heatmap THEN {}
                                    ELSE IF numeric_data_empty(df3)
                                         THEN {"heatmap_warning"} ELSE {"heatmap_plot"})
                              \cup (IF ~histograms THEN {}
                                    ELSE IF numeric_data_empty(df3)
                                         THEN {"histogram_warning"} ELSE {"histogram_plots"})
                              \cup {"all_completed"},
                          download |->
                              IF do_convert
                              THEN [offered |-> TRUE,
                                    file_name |-> download_file_name(conversion_type),
                                    mime |-> mime_type(conversion_type),
                                    data |-> Serialize(df3, conversion_type)]
                              ELSE NoDownload,
                          rendered |-> drawn_clean
                              \cup {"heatmap_cb", "histograms_cb", "format_radio",
                                    "convert_btn"}
                              \cup (IF do_convert THEN {"download_btn"} ELSE {})]]

\* ------------------------------------------------------------ inputs
SeqsUpTo(S, n) == UNION {[1..k -> S] : k \in 0..n}

Header == <<"id", "value">>

\* File names the user may upload (the browser's type filter is not relied
\* on): a lower- and an upper-case supported extension, another extension,
\* and no extension.
SupportedNames == {<<"d", ".", "c", "s", "v">>, <<"d", ".", "X", "L", "S", "X">>}
OtherNames == {<<"d", ".", "T", "X", "T">>, <<"d">>}
Names == SupportedNames \cup OtherNames

\* Lines of the files of the session model.
SessionLines == {<<"1", "">>, <<"x", "3">>}

\* The uploads of the session model.  The script never reads the content of
\* a file whose extension it rejects, so one content stands for all of them.
Files ==
    {[name |-> nm, header |-> Header, lines |-> ls] :
        nm \in SupportedNames, ls \in SeqsUpTo(SessionLines, MaxRows)}
    \cup {[name |-> nm, header |-> Header, lines |-> <<<<"1", "">>>>] :
              nm \in OtherNames}

\* Lines of the files of the table-operation model: an id that is a number,
\* empty or text, and a value that is a number or empty.
OpLines == {<<a, b>> : a \in {"1", "", "x"}, b \in {"1", "2", ""}}

OpContents ==
    {[header |-> Header, lines |-> ls] : ls \in SeqsUpTo(OpLines, MaxOpRows)}

\* The selections a multiselect over the given options can hold: distinct
\* options in the order they were picked.
Selections(options) ==
    {sel \in SeqsUpTo(Range(options), Len(options)) :
        \A i, j \in 1..Len(sel) : i # j => sel[i] # sel[j]}

\* ------------------------------------------------------------ state
VARIABLES
    uploaded_file,  \* the uploader's value (NoFile when empty)
    widgets,        \* the widget values the session keeps between runs
    out,            \* what the last run of the script produced
    opT,            \* table-operation model: the current table
    opPrev,         \* table-operation model: the table before the last operation
    opLast          \* table-operation model: the last operation applied

vars == <<uploaded_file, widgets, out, opT, opPrev, opLast>>
sessionVars == <<uploaded_file, widgets, out>>
opVars == <<opT, opPrev, opLast>>

\* ------------------------------------------------------------ session
\* An interaction sets the uploader to file and the widgets to w, and the
\* script runs once with `clicked` as the pressed button.
Rerun(file, w, clicked) ==
    LET r == Script(file, w, out.rendered, clicked)
    IN  /\ uploaded_file' = file
        /\ widgets' = r.widgets
        /\ out' = r.out
        /\ UNCHANGED opVars

Init ==
    /\ uploaded_file = NoFile
    /\ widgets = Script(NoFile, DefaultWidgets, {}, "none").widgets
    /\ out = Script(NoFile, DefaultWidgets, {}, "none").out
    /\ opT = NoTable
    /\ opPrev = NoTable
    /\ opLast = "none"

\* A new upload replaces the uploader's value (choosing the identical file
\* again changes nothing the script reads and is not a new upload).
Upload ==
    \E f \in Files \ {uploaded_file} : Rerun(f, widgets, "none")

RemoveFile ==
    /\ uploaded_file # NoFile
    /\ Rerun(NoFile, widgets, "none")

SelectColumn ==
    /\ "multiselect" \in out.rendered
    /\ \E c \in Range(uploaded_file.header) \ Range(widgets.selected_columns) :
          Rerun(uploaded_file,
                [widgets EXCEPT !.selected_columns = Append(@, c)], "none")

DeselectColumn ==
    /\ "multiselect" \in out.rendered
    /\ \E c \in Range(widgets.selected_columns) :
          Rerun(uploaded_file,
                [widgets EXCEPT !.selected_columns = SelectSeq(@, LAMBDA x : x # c)],
                "none")

ToggleCleaning ==
    /\ "cleaning_cb" \in out.rendered
    /\ Rerun(uploaded_file,
             [widgets EXCEPT !.cleaning = ~@], "none")

ToggleSummary ==
    /\ "summary_cb" \in out.rendered
    /\ Rerun(uploaded_file,
             [widgets EXCEPT !.summary = ~@], "none")

ToggleHeatmap ==
    /\ "heatmap_cb" \in out.rendered
    /\ Rerun(uploaded_file,
             [widgets EXCEPT !.heatmap = ~@], "none")

ToggleHistograms ==
    /\ "histograms_cb" \in out.rendered
    /\ Rerun(uploaded_file,
             [widgets EXCEPT !.histograms = ~@], "none")

ChooseFormat ==
    /\ "format_radio" \in out.rendered
    /\ \E f \in Formats \ {widgets.conversion_type} :
          Rerun(uploaded_file,
                [widgets EXCEPT !.conversion_type = f], "none")

ClickRemoveDuplicates ==
    /\ "dedup_btn" \in out.rendered
    /\ Rerun(uploaded_file, widgets, "dedup")

ClickFillMissing ==
    /\ "fill_btn" \in out.rendered
    /\ Rerun(uploaded_file, widgets, "fill")

ClickConvert ==
    /\ "convert_btn" \in out.rendered
    /\ Rerun(uploaded_file, widgets, "convert")

ClickDownload ==
    /\ "download_btn" \in out.rendered
    /\ Rerun(uploaded_file, widgets, "none")

Next ==
    \/ Upload
    \/ RemoveFile
    \/ SelectColumn
    \/ DeselectColumn
    \/ ToggleCleaning
    \/ ToggleSummary
    \/ ToggleHeatmap
    \/ ToggleHistograms
    \/ ChooseFormat
    \/ ClickRemoveDuplicates
    \/ ClickFillMissing
    \/ ClickConvert
    \/ ClickDownload

Spec == Init /\ [][Next]_vars

\* ------------------------------------------------------------ operations
\* The table operations on their own: a parsed and projected table, then
\* the two cleaning operations applied to it in any order and any number
\* of times.
OpInit ==
    /\ uploaded_file = NoFile
    /\ widgets = Script(NoFile, DefaultWidgets, {}, "none").widgets
    /\ out = Script(NoFile, DefaultWidgets, {}, "none").out
    /\ \E c \in OpContents, sel \in Selections(Header) :
          /\ opT = getitem_columns(read_table(c), sel)
          /\ opPrev = getitem_columns(read_table(c), sel)
    /\ opLast = "load"

OpRemoveDuplicates ==
    /\ opPrev' = opT
    /\ opT' = drop_duplicates(opT)
    /\ opLast' = "dedup"
    /\ UNCHANGED sessionVars

OpFillMissing ==
    /\ opPrev' = opT
    /\ opT' = fillna_mean(opT)
    /\ opLast' = "fill"
    /\ UNCHANGED sessionVars

OpNext ==
    \/ OpRemoveDuplicates
    \/ OpFillMissing

SpecOps == OpInit /\ [][OpNext]_vars

\* ------------------------------------------------------------ claims
SameInput ==
    /\ uploaded_file' = uploaded_file
    /\ widgets'.selected_columns = widgets.selected_columns

\* C1: when Convert & Download is pressed right after a cleaning click
\* (same upload, same selection), the export buffer holds the serialization
\* of the cleaned table the cleaning click produced.
C1_ExportWritesCleanedTable ==
    [][(/\ out.executed \cap {"dedup", "fill"} # {}
        /\ out'.executed = {"convert"}
        /\ SameInput)
       => out'.download.data = Serialize(out.df, widgets'.conversion_type)]_vars

\* C2: an interaction that is no upload, no selection change and no cleaning
\* click leaves the Working Table's columns and row count as they were.
C2_OnlyExplicitOperationsChangeTable ==
    [][(/\ out.has_df /\ out'.has_df
        /\ SameInput
        /\ out'.executed \cap {"dedup", "fill"} = {})
       => /\ out'.df.columns = out.df.columns
          /\ Len(out'.df.data) = Len(out.df.data)]_vars

\* C3: Fill Missing clicked after Remove Duplicates works on the deduplicated
\* table, and Remove Duplicates clicked after Fill Missing works on the
\* filled table.
C3_CleaningIsCumulative ==
    [][/\ (out.executed = {"dedup"} /\ out'.executed = {"fill"} /\ SameInput)
           => out'.df = fillna_mean(out.df)
       /\ (out.executed = {"fill"} /\ out'.executed = {"dedup"} /\ SameInput)
           => out'.df = drop_duplicates(out.df)]_vars

ProcessedDataCsv ==
    <<"p", "r", "o", "c", "e", "s", "s", "e", "d", "_", "d", "a", "t", "a",
      ".", "c", "s", "v">>
ProcessedDataXlsx ==
    <<"p", "r", "o", "c", "e", "s", "s", "e", "d", "_", "d", "a", "t", "a",
      ".", "x", "l", "s", "x">>

\* C4: every offered download is named processed_data.csv with MIME text/csv
\* for CSV, and processed_data.xlsx with the spreadsheet MIME for Excel.
C4_DownloadNameAndMime ==
    out.download.offered =>
        /\ widgets.conversion_type = FormatCSV =>
              /\ out.download.file_name = ProcessedDataCsv
              /\ out.download.mime = "text/csv"
        /\ widgets.conversion_type = FormatExcel =>
              /\ out.download.file_name = ProcessedDataXlsx
              /\ out.download.mime =
                    "application/vnd.openxmlformats-officedocument.spreadsheetml.sheet"

\* The names of Names whose extension, compared case-insensitively, is
\* neither .csv nor .xlsx.
UnsupportedNames == {<<"d", ".", "T", "X", "T">>, <<"d">>}

\* C5: with an upload of unsupported extension the run shows the error and
\* halts: no Working Table, no later widget drawn, nothing executed, no
\* download, no final success message.
C5_UnsupportedUploadHalts ==
    uploaded_file.name \in UnsupportedNames =>
        /\ out.status = "stopped"
        /\ out.shown = {"error_unsupported"}
        /\ ~out.has_df
        /\ out.rendered = {"uploader"}
        /\ out.executed = {}
        /\ ~out.download.offered

C5_Witness ==
    /\ uploaded_file.name = <<"d", ".", "T", "X", "T">>
    /\ Len(uploaded_file.lines) > 0
    /\ out.status = "stopped"

\* C6: with an empty column selection the Working Table has no columns and
\* the run completes without an error whatever the user has enabled;
\* heatmap and histograms show a warning instead of a plot.
C6_EmptySelectionTolerated ==
    (out.has_df /\ widgets.selected_columns = <<>>) =>
        /\ Len(out.df.columns) = 0
        /\ out.status = "completed"
        /\ widgets.heatmap =>
              ("heatmap_warning" \in out.shown /\ "heatmap_plot" \notin out.shown)
        /\ widgets.histograms =>
              ("histogram_warning" \in out.shown /\ "histogram_plots" \notin out.shown)

\* Exact arithmetic for the mean of the cells of a column at given rows.
RECURSIVE DenProduct(_, _, _)
DenProduct(data, j, rows) ==
    IF rows = {} THEN 1
    ELSE LET i == CHOOSE r \in rows : TRUE
         IN  data[i][j].d * DenProduct(data, j, rows \ {i})

RECURSIVE ScaledSum(_, _, _, _)
ScaledSum(data, j, rows, den) ==
    IF rows = {} THEN 0
    ELSE LET i == CHOOSE r \in rows : TRUE
         IN  data[i][j].n * (den \div data[i][j].d) + ScaledSum(data, j, rows \ {i}, den)

\* v is the arithmetic mean of the cells of column j at the given rows.
IsMeanOf(v, data, j, rows) ==
    LET den == DenProduct(data, j, rows)
    IN  /\ v.k = "num"
        /\ v.d > 0
        /\ v.n * den * Cardinality(rows) = v.d * ScaledSum(data, j, rows, den)

\* C7: Fill Missing (Mean) leaves columns, dtypes and row count alone; in a
\* numeric column with a present value no entry is missing afterwards,
\* present values are kept and each formerly missing entry is the mean of
\* the present values; every other column (non-numeric, or numeric and
\* entirely missing) is unchanged.
C7_FillMissingMean ==
    opLast = "fill" =>
        /\ opT.columns = opPrev.columns
        /\ opT.dtypes = opPrev.dtypes
        /\ Len(opT.data) = Len(opPrev.data)
        /\ \A j \in 1..Len(opPrev.columns) :
              LET rows == 1..Len(opPrev.data)
                  present == {i \in rows : opPrev.data[i][j] # NA}
              IN  IF opPrev.dtypes[j] = "number" /\ present # {}
                  THEN /\ \A i \in rows : opT.data[i][j] # NA
                       /\ \A i \in present : opT.data[i][j] = opPrev.data[i][j]
                       /\ \A i \in rows \ present :
                             IsMeanOf(opT.data[i][j], opPrev.data, j, present)
                  ELSE \A i \in rows : opT.data[i][j] = opPrev.data[i][j]

\* A fill that inserted a mean that is not a whole number, next to a numeric
\* column that was and stays entirely missing.
C7_Witness ==
    /\ opLast = "fill"
    /\ Len(opT.columns) = 2
    /\ \E i \in 1..Len(opT.data) : opPrev.data[i][1] = NA /\ opT.data[i][1].d = 2
    /\ opT.dtypes[2] = "number"
    /\ \A i \in 1..Len(opT.data) : opT.data[i][2] = NA

\* The rows of data that equal no earlier row, in their order.
FirstOccurrences(data) ==
    LET keep == {i \in 1..Len(data) : \A j \in 1..(i - 1) : data[j] # data[i]}
        nth(k) == CHOOSE i \in keep : Cardinality({m \in keep : m <= i}) = k
    IN  [k \in 1..Cardinality(keep) |-> data[nth(k)]]

\* C8 as stated: Remove Duplicates yields exactly the first occurrences of
\* the rows, in order, whatever the projection, and a second application
\* changes nothing.
C8_RemoveDuplicatesAsStated ==
    opLast = "dedup" =>
        /\ opT.columns = opPrev.columns
        /\ opT.data = FirstOccurrences(opPrev.data)
        /\ drop_duplicates(opT) = opT

\* C8 amended: with at least one column in the projection Remove Duplicates
\* yields exactly the first occurrences of the rows, in order; with no
\* column it leaves the table (and its row count) as it is; either way a
\* second application changes nothing.
C8_RemoveDuplicates ==
    /\ [](opLast = "dedup" =>
            /\ opT.columns = opPrev.columns
            /\ opT.dtypes = opPrev.dtypes
            /\ opT.data = IF Len(opPrev.columns) = 0 THEN opPrev.data
                          ELSE FirstOccurrences(opPrev.data))
    /\ [][(opLast = "dedup" /\ opLast' = "dedup") => opT' = opT]_vars

\* A deduplication that dropped the later copy of a row and kept a
\* different row that stood between the copies.
C8_Witness ==
    /\ opLast = "dedup"
    /\ Len(opPrev.data) = 3
    /\ opPrev.data[1] = opPrev.data[3]
    /\ opPrev.data[1] # opPrev.data[2]
    /\ Len(opT.data) = 2

\* C9: the table after projection has exactly the selected columns in the
\* order selected, with the number, order and cells of the parsed rows
\* unchanged; a multiselect that is drawn anew selects all columns.
C9_ProjectionIsPureFilter ==
    /\ [](out.has_df =>
            LET sel == widgets.selected_columns
                parsed == read_table(uploaded_file)
            IN  /\ Range(sel) \subseteq Range(parsed.columns)
                /\ out.df_in.columns = sel
                /\ Len(out.df_in.data) = Len(parsed.data)
                /\ \A i \in 1..Len(parsed.data) : \A j \in 1..Len(sel) :
                      \E c \in 1..Len(parsed.columns) :
                          /\ parsed.columns[c] = sel[j]
                          /\ out.df_in.dtypes[j] = parsed.dtypes[c]
                          /\ out.df_in.data[i][j] = parsed.data[i][c])
    /\ [][("multiselect" \notin out.rendered /\ "multiselect" \in out'.rendered)
            => widgets'.selected_columns = uploaded_file'.header]_vars

\* A projection onto both columns in the order opposite to the file's.
C9_Witness ==
    /\ out.has_df
    /\ widgets.selected_columns = <<"value", "id">>
    /\ Len(out.df_in.data) = 2
    /\ out.df_in.data[1] # out.df_in.data[2]

\* C10: in every run with a supported upload the table entering the
\* cleaning section is the parsed upload projected onto the selection, it
\* is the same table as in the previous run of the same upload and
\* selection whatever was clicked, and at most one of Remove Duplicates,
\* Fill Missing and Convert & Download executes in the run.
C10_FreshTableOneButtonPerRun ==
    /\ [](out.has_df =>
            /\ out.df_in = getitem_columns(read_table(uploaded_file),
                                           widgets.selected_columns)
            /\ Cardinality(out.executed) <= 1)
    /\ [][(out.has_df /\ out'.has_df /\ SameInput) => out'.df_in = out.df_in]_vars

\* A run whose Remove Duplicates click changed the table it was given.
C10_Witness ==
    /\ out.executed = {"dedup"}
    /\ out.df # out.df_in

====
